---- MODULE Spec2Model ----
(***************************************************************************)
(* Ping monitor (widget.py): the per-target status/incident tracker, the   *)
(* recap scheduler, the manual recap, and the report store (xlsx workbook  *)
(* with CSV fallback).                                                     *)
(***************************************************************************)
EXTENDS Integers, Sequences, FiniteSets, TLC

\* ---------------------------------------------------------------- bounds
\* ticks and presses of "Rekap Now" taken in one behaviour of Spec
MaxSteps == 3
\* scheduler decisions in one behaviour of SpecSched
MaxSchedTicks == 1
\* ticks started in one behaviour of SpecTick
MaxDispatch == 2
\* statuses fed in one behaviour of SpecTracker, five minutes apart
MaxFeed == 4
\* store operations in one behaviour of SpecStore
MaxStoreOps == 2
\* appends and queries in one behaviour of SpecQuery
MaxQueryOps == 3

\* ------------------------------------------------------ targets, statuses
\* The first two of the six entries of TARGETS / REKAP_ORDER.
REKAP_ORDER == <<"Server", "Desktop">>

TARGETS == {REKAP_ORDER[i] : i \in DOMAIN REKAP_ORDER}

\* what check_target / dummy_status can return
Statuses == {"UP", "WARNING", "DOWN"}

\* one dispatch: a status for every target (results.get(name, "DOWN"))
Results == [TARGETS -> Statuses]

\* PING_COUNT, the echo requests of one probe
PING_COUNT == 2

\* sub in s, for strings
Contains(s, sub) ==
    \E i \in 1..(Len(s) - Len(sub) + 1) : SubSeq(s, i, i + Len(sub) - 1) = sub

\* How one run of ping ends: exc is subprocess.run raising (TimeoutExpired
\* after 10 s, OSError), returncode the exit code, out the lower-cased
\* standard output; escapes is an exception that "except Exception" of
\* check_target does not hold back.
PingRun(exc, returncode, out) ==
    [exc |-> exc, returncode |-> returncode, out |-> out, escapes |-> FALSE]

WorkerError == [exc |-> TRUE, returncode |-> 0, out |-> "", escapes |-> TRUE]

\* the percentage ping prints for lost of PING_COUNT requests
LossPercent(lost) == (lost * 100) \div PING_COUNT

\* the statistics line of ping -n (Windows), lower-cased
WindowsStats(lost) ==
    "packets: sent = " \o ToString(PING_COUNT) \o ", received = "
        \o ToString(PING_COUNT - lost) \o ", lost = " \o ToString(lost)
        \o " (" \o ToString(LossPercent(lost)) \o "% loss)"

\* the statistics line of ping -c (Linux, macOS), lower-cased
UnixStats(lost) ==
    ToString(PING_COUNT) \o " packets transmitted, " \o ToString(PING_COUNT - lost)
        \o " received, " \o ToString(LossPercent(lost)) \o "% packet loss"

\* ping exits with 0 when at least one reply came back
ExitCode(lost) == IF lost = PING_COUNT THEN 1 ELSE 0

\* every number of lost replies in both output formats; a router answering
\* "unreachable" to every request (counted as replies, exit code 0); output
\* without a statistics line; ping failing before it sends; subprocess.run
\* raising
PingRuns ==
    { PingRun(FALSE, ExitCode(k), WindowsStats(k)) : k \in 0..PING_COUNT }
    \cup { PingRun(FALSE, ExitCode(k), UnixStats(k)) : k \in 0..PING_COUNT }
    \cup { PingRun(FALSE, 0, "reply from 192.168.1.1: destination host unreachable. "
                                \o WindowsStats(0)),
           PingRun(FALSE, 0, ""),
           PingRun(FALSE, 2, "ping: unknown host"),
           PingRun(TRUE, 0, "") }

check_target(run) ==
    IF run.exc THEN "DOWN"
    ELSE IF run.returncode # 0 \/ Contains(run.out, "unreachable") THEN "DOWN"
    ELSE IF Contains(run.out, "lost = 0") \/ Contains(run.out, "0% packet loss") THEN "UP"
    ELSE IF Contains(run.out, "lost =") \/ Contains(run.out, "packet loss") THEN "WARNING"
    ELSE "DOWN"

\* A future that is done: it holds the value check_target returned, or the
\* exception that left the worker.
FutureOf(run) ==
    IF run.escapes THEN [state |-> "done", raised |-> TRUE, run |-> run]
    ELSE [state |-> "done", raised |-> FALSE, value |-> check_target(run), run |-> run]

\* variant: the exception of fut.result() is stored as the status
FutureResult_Propagates(fut) == IF fut.raised THEN "raised" ELSE fut.value

\* try: results[name] = fut.result()  except Exception: results[name] = "DOWN"
FutureResult(fut) == IF fut.raised THEN "DOWN" ELSE fut.value

\* ------------------------------------------------------------ wall clock
\* An instant is [date, h, m, s]; date is the proleptic ordinal of the day
\* (date.toordinal()): 739926 is Friday 06/11/2026.
Weekday(d) == (d + 6) % 7

Pad2(n) == IF n < 10 THEN "0" \o ToString(n) ELSE ToString(n)

\* now.strftime("%H:%M"): the seconds are dropped
HHMM(t) == Pad2(t.h) \o ":" \o Pad2(t.m)

\* today.strftime("%d/%m/%Y") for the days of October and November 2026
DateStr(d) ==
    IF d > 739920 THEN Pad2(d - 739920) \o "/11/2026"
    ELSE Pad2(d - 739889) \o "/10/2026"

\* seconds since 31/10/2026 00:00:00
Secs(t) == (((t.date - 739920) * 24 + t.h) * 60 + t.m) * 60 + t.s

Later(a, b) == Secs(a) < Secs(b)

\* the times of day at which Spec samples the clock: the Saturday boundary,
\* the weekday boundary and a second tick inside the same minute
DayTimes == {<<13, 30, 0>>, <<15, 30, 0>>, <<15, 30, 3>>}

\* the days Spec spans: Friday 06/11/2026 and Saturday 07/11/2026
Days == {739926, 739927}

Instants == {[date |-> d, h |-> c[1], m |-> c[2], s |-> c[3]] : d \in Days, c \in DayTimes}

\* five minutes later on the same day, the tick period of SpecTracker
PlusFive(t) ==
    IF t.m + 5 < 60 THEN [t EXCEPT !.m = @ + 5]
    ELSE [t EXCEPT !.h = @ + 1, !.m = @ + 5 - 60]

\* SpecSched: the week from Monday 02/11/2026 to Sunday 08/11/2026
WeekDays == 739922..739928

\* SpecSched: the boundary minutes, and minutes that differ from a boundary
\* in the hour or in the minute
SchedTimes == {<<13, 30, 0>>, <<14, 30, 0>>, <<15, 30, 0>>, <<15, 30, 3>>, <<15, 31, 0>>}

SchedInstants ==
    {[date |-> d, h |-> c[1], m |-> c[2], s |-> c[3]] :
        d \in WeekDays \cup {739929}, c \in SchedTimes}

\* ------------------------------------------------------- string helpers
RECURSIVE JoinSemi(_)
\* ";".join(xs)
JoinSemi(xs) ==
    IF xs = <<>> THEN ""
    ELSE IF Len(xs) = 1 THEN xs[1]
    ELSE xs[1] \o ";" \o JoinSemi(Tail(xs))

IsPrefix(a, b) == Len(a) <= Len(b) /\ SubSeq(b, 1, Len(a)) = a

\* variant: the first n elements of xs
LastN_First(xs, n) == IF Len(xs) <= n THEN xs ELSE SubSeq(xs, 1, n)

\* the last n elements of xs (xs[-n:])
LastN(xs, n) == IF Len(xs) <= n THEN xs ELSE SubSeq(xs, Len(xs) - n + 1, Len(xs))

\* ================================================================ store
\* A workbook file is [exists, readable, header, body, has_grafik, grafik]:
\* header is row 1 of the active sheet "Rekap", body its data rows, each a
\* sequence of cells [str |-> s] or [int |-> n]; grafik the rows of sheet
\* "Grafik".  readable = FALSE is a file load_workbook raises on.
\* The CSV file is [exists, lines], each line a sequence of strings.
\* faults is the set of I/O steps that fail during one call:
\*   "save_xlsx"  wb.save(path) raises (file locked, read-only)
\*   "open_csv"   opening the CSV for writing raises
\*   "grafik"     update_grafik_sheet raises after preparing the sheet

DownHeaders == [i \in DOMAIN REKAP_ORDER |-> "Down " \o REKAP_ORDER[i]]

JamDownHeaders == [i \in DOMAIN REKAP_ORDER |-> "JamDown " \o REKAP_ORDER[i]]

\* ["Tanggal"] + [Down n] + [JamDown n]
CurrentHeader == <<"Tanggal">> \o DownHeaders \o JamDownHeaders

\* the header written before the JamDown columns were introduced
LegacyHeader == <<"Tanggal">> \o DownHeaders

\* variant: no header cell is recognised as a JamDown column
StartsWithJamDown_Never(hd) == FALSE

\* str(h or "").startswith("JamDown "), over the header cells of the model
StartsWithJamDown(hd) == \E i \in DOMAIN JamDownHeaders : JamDownHeaders[i] = hd

NoXlsx ==
    [exists |-> FALSE, readable |-> FALSE, header |-> <<>>, body |-> <<>>,
     has_grafik |-> FALSE, grafik |-> <<>>]

NoCsv == [exists |-> FALSE, lines |-> <<>>]

\* variant: the new workbook gets the header without the JamDown columns
NewWorkbook_Legacy ==
    [exists |-> TRUE, readable |-> TRUE, header |-> LegacyHeader, body |-> <<>>,
     has_grafik |-> FALSE, grafik |-> <<>>]

\* Workbook(); ws.append(header)
NewWorkbook ==
    [exists |-> TRUE, readable |-> TRUE, header |-> CurrentHeader, body |-> <<>>,
     has_grafik |-> FALSE, grafik |-> <<>>]

RECURSIVE MaxLen(_)
MaxLen(rows) ==
    IF rows = <<>> THEN 0
    ELSE LET r == MaxLen(Tail(rows))
         IN IF Len(rows[1]) > r THEN Len(rows[1]) ELSE r

\* ws.max_column
MaxColumn(x) == IF Len(x.header) > MaxLen(x.body) THEN Len(x.header) ELSE MaxLen(x.body)

\* ws.cell(1, ws.max_column+1, "JamDown <name>") for every name, in order;
\* header cells between the old header and max_column stay empty
AddJamDownColumns(x) ==
    [x EXCEPT !.header =
        @ \o [i \in 1..(MaxColumn(x) - Len(@)) |-> ""] \o JamDownHeaders]

ensure_workbook(x, c, excel, faults) ==
    IF excel THEN
        LET loaded == x.exists /\ x.readable
            known  == loaded /\ Len(x.header) >= 1 /\ x.header[1] = "Tanggal"
            legacy == known /\ ~\E i \in DOMAIN x.header : StartsWithJamDown(x.header[i])
        IN  IF known /\ ~legacy THEN
                [xlsx |-> x, csv |-> c, mode |-> "xlsx", raised |-> FALSE]
            ELSE IF legacy /\ "save_xlsx" \notin faults THEN
                [xlsx |-> AddJamDownColumns(x), csv |-> c, mode |-> "xlsx", raised |-> FALSE]
            ELSE IF "save_xlsx" \in faults THEN
                [xlsx |-> x, csv |-> c, mode |-> "xlsx", raised |-> TRUE]
            ELSE
                [xlsx |-> NewWorkbook, csv |-> c, mode |-> "xlsx", raised |-> FALSE]
    ELSE
        IF c.exists THEN
            [xlsx |-> x, csv |-> c, mode |-> "csv", raised |-> FALSE]
        ELSE IF "open_csv" \in faults THEN
            [xlsx |-> x, csv |-> c, mode |-> "csv", raised |-> TRUE]
        ELSE
            [xlsx |-> x, csv |-> [exists |-> TRUE, lines |-> <<CurrentHeader>>],
             mode |-> "csv", raised |-> FALSE]

\* {str(ws.cell(1, c).value): c}: for a repeated name the last column wins; 0 if absent
HeaderColumn(header, name) ==
    LET hits == {i \in DOMAIN header : header[i] = name}
    IN IF hits = {} THEN 0 ELSE CHOOSE i \in hits : \A j \in hits : j <= i

\* the number of trailing rows the Grafik table holds
GrafikWindow == 30

\* the cell of row r at column cidx as a count: 0 unless it holds a number
CountAt(r, cidx) ==
    IF cidx >= 1 /\ cidx <= Len(r) /\ DOMAIN r[cidx] = {"int"} THEN r[cidx].int ELSE 0

\* variant: rows whose counts are all zero get no entry
update_grafik_sheet_SkipZero(x) ==
    LET nonzero(r) == \E i \in DOMAIN REKAP_ORDER :
                         CountAt(r, HeaderColumn(x.header, DownHeaders[i])) > 0
        last30 == SelectSeq(LastN(x.body, GrafikWindow), nonzero)
        line(r) == <<r[1]>> \o
            [i \in DOMAIN REKAP_ORDER |->
                [int |-> CountAt(r, HeaderColumn(x.header, DownHeaders[i]))]]
    IN [x EXCEPT !.has_grafik = TRUE,
                 !.grafik = <<[i \in 1..(1 + Len(REKAP_ORDER)) |->
                                 [str |-> (<<"Tanggal">> \o REKAP_ORDER)[i]]]>>
                            \o [k \in DOMAIN last30 |-> line(last30[k])]]

update_grafik_sheet(x) ==
    LET last30 == LastN(x.body, GrafikWindow)
        line(r) == <<r[1]>> \o
            [i \in DOMAIN REKAP_ORDER |->
                [int |-> CountAt(r, HeaderColumn(x.header, DownHeaders[i]))]]
    IN [x EXCEPT !.has_grafik = TRUE,
                 !.grafik = <<[i \in 1..(1 + Len(REKAP_ORDER)) |->
                                 [str |-> (<<"Tanggal">> \o REKAP_ORDER)[i]]]>>
                            \o [k \in DOMAIN last30 |-> line(last30[k])]]

\* the Grafik sheet created or cleared, and nothing written to it
GrafikCleared(x) == [x EXCEPT !.has_grafik = TRUE, !.grafik = <<>>]

\* row = [tanggal_str] + counts + jam_joined, as workbook cells
XlsxRow(today, counters, jam_map) ==
    <<[str |-> DateStr(today)]>>
    \o [i \in DOMAIN REKAP_ORDER |-> [int |-> counters[REKAP_ORDER[i]]]]
    \o [i \in DOMAIN REKAP_ORDER |-> [str |-> JoinSemi(jam_map[REKAP_ORDER[i]])]]

\* the same row as csv.writer writes it
CsvRow(today, counters, jam_map) ==
    <<DateStr(today)>>
    \o [i \in DOMAIN REKAP_ORDER |-> ToString(counters[REKAP_ORDER[i]])]
    \o [i \in DOMAIN REKAP_ORDER |-> JoinSemi(jam_map[REKAP_ORDER[i]])]

\* variant: the fallback opens the CSV and writes nothing
CsvAppend_Lost(c, line) == [exists |-> TRUE, lines |-> c.lines]

\* open(REKAP_FILE_CSV, "a"): creates the file when absent, without a header
CsvAppend(c, line) == [exists |-> TRUE, lines |-> Append(c.lines, line)]

\* variant: the Grafik sheet is refreshed after every append
NeedsRefresh_Always(counters) == TRUE

\* any(v > 0 for v in row[1:1+len(REKAP_ORDER)])
NeedsRefresh(counters) == \E n \in TARGETS : counters[n] > 0

\* variant: an exception of update_grafik_sheet reaches the outer except
RichWriteFails_OnRefresh(x, faults, anyDown) ==
    ~x.readable \/ "save_xlsx" \in faults \/ (anyDown /\ "grafik" \in faults)

\* the try of lines 324-333 raises: load_workbook or wb.save fails; an
\* exception of update_grafik_sheet is caught inside it
RichWriteFails(x, faults, anyDown) == ~x.readable \/ "save_xlsx" \in faults

\* Returns the files after the call, whether it raised, and where the row
\* went: "xlsx", "csv" or "none".
write_rekap(x, c, excel, faults, today, counters, jam_map) ==
    LET e == ensure_workbook(x, c, excel, faults)
        viaCsv ==
            IF "open_csv" \in faults THEN
                [xlsx |-> e.xlsx, csv |-> e.csv, raised |-> TRUE, stored |-> "none"]
            ELSE
                [xlsx |-> e.xlsx, csv |-> CsvAppend(e.csv, CsvRow(today, counters, jam_map)),
                 raised |-> FALSE, stored |-> "csv"]
    IN  IF e.raised THEN
            [xlsx |-> e.xlsx, csv |-> e.csv, raised |-> TRUE, stored |-> "none"]
        ELSE IF e.mode = "xlsx" THEN
            LET appended == [e.xlsx EXCEPT !.body = Append(@, XlsxRow(today, counters, jam_map))]
                anyDown  == NeedsRefresh(counters)
                charted  == IF ~anyDown THEN appended
                            ELSE IF "grafik" \in faults THEN GrafikCleared(appended)
                            ELSE update_grafik_sheet(appended)
            IN  IF RichWriteFails(e.xlsx, faults, anyDown) THEN viaCsv
                ELSE [xlsx |-> charted, csv |-> e.csv, raised |-> FALSE, stored |-> "xlsx"]
        ELSE viaCsv

\* the number of trailing rows the weekly chart shows
WeeklyWindow == 7

\* int(s) for the decimal strings of 0..99; -1 where int() raises
ParseInt(s) ==
    IF \E n \in 0..99 : ToString(n) = s
    THEN CHOOSE n \in 0..99 : ToString(n) = s
    ELSE -1

\* headers.index(name): the first column (0-based) holding name, -1 if absent
FirstIndex(header, name) ==
    LET hits == {i \in DOMAIN header : header[i] = name}
    IN IF hits = {} THEN -1 ELSE (CHOOSE i \in hits : \A j \in hits : i <= j) - 1

EmptyQuery == [dates |-> <<>>, data |-> [n \in TARGETS |-> <<>>]]

read_last_7_days(x, c, excel) ==
    LET fromXlsx ==
            LET last == LastN(x.body, WeeklyWindow)
                val(r, n) ==
                    LET i == FirstIndex(x.header, "Down " \o n)
                    IN IF i >= 0 THEN CountAt(r, i + 1) ELSE 0
            IN [dates |-> [k \in DOMAIN last |-> last[k][1].str],
                data  |-> [n \in TARGETS |-> [k \in DOMAIN last |-> val(last[k], n)]]]
        fromCsv ==
            LET headers == c.lines[1]
                last == LastN(Tail(c.lines), WeeklyWindow)
                val(r, n) ==
                    LET i == FirstIndex(headers, "Down " \o n)
                    IN IF i >= 0 /\ i + 1 <= Len(r) /\ ParseInt(r[i + 1]) >= 0
                       THEN ParseInt(r[i + 1]) ELSE 0
            IN [dates |-> [k \in DOMAIN last |-> last[k][1]],
                data  |-> [n \in TARGETS |-> [k \in DOMAIN last |-> val(last[k], n)]]]
    IN  IF excel /\ x.exists /\ x.readable THEN
            IF Len(x.body) = 0 THEN EmptyQuery ELSE fromXlsx
        ELSE IF c.exists THEN
            IF Len(c.lines) <= 1 THEN EmptyQuery ELSE fromCsv
        ELSE EmptyQuery

\* ============================================================== monitor
VARIABLES
    last_status,     \* name -> "INIT" | "UP" | "WARNING" | "DOWN"
    incident_open,   \* name -> BOOLEAN
    down_counter,    \* name -> incidents counted since the last recap
    down_times,      \* name -> their HH:MM, in order
    last_rekap_day,  \* date of the last recap, 0 for None
    tick_lock,       \* _tick_lock is held
    timer,           \* the after() job of tick: "pending", "due" or "none"
    now,             \* the wall clock, datetime.now()
    excel,           \* EXCEL_AVAILABLE
    xlsx,            \* REKAP_FILE_XLSX
    csv,             \* REKAP_FILE_CSV
    query,           \* what the last read_last_7_days returned
    tick_pc,         \* where the running tick is: "idle" or "probing"
    probe,           \* name -> the future of that target's probe
    results,         \* the results dict the as_completed loop fills
    \* ---- observers, read by no action's guard
    nticks,          \* ticks that acquired the lock
    nmanual,         \* presses of "Rekap Now"
    nops,            \* store operations of SpecStore
    last_op,         \* what the last step did
    written,         \* the rows write_rekap stored, in order, with their origin
    opened,          \* name -> transitions into DOWN fed since startup
    open_days,       \* name -> dates of the transitions into DOWN since the last recap
    fed,             \* SpecTracker: name -> the statuses fed, in order
    fed_times,       \* SpecTracker: the HH:MM of every tick, in order
    in_tick,         \* ticks that acquired the lock and have not released it
    executor,        \* the worker pool: "running", or "shutdown" after on_close
    last_call        \* the arguments and outcome of the last store call

monitor_vars ==
    <<last_status, incident_open, down_counter, down_times, last_rekap_day,
      tick_lock, timer, now>>

store_vars == <<excel, xlsx, csv, query>>

tick_vars == <<tick_pc, probe, results, in_tick, executor>>

observer_vars == <<nticks, nmanual, nops, last_op, written, opened, open_days, fed, fed_times, tick_vars>>

vars == <<monitor_vars, store_vars, observer_vars, tick_vars, last_call>>

\* ---- the tracker, lines 658-672 of tick (and 775-786 of run)

\* variant: every DOWN observation opens an incident
IncidentOpens_EveryDown(name, r) == r[name] = "DOWN"

\* before != "DOWN" and st == "DOWN" and not self.incident_open[name]
IncidentOpens(name, r) ==
    last_status[name] # "DOWN" /\ r[name] = "DOWN" /\ ~incident_open[name]

\* variant: the second if is missing, an incident is never closed
TrackedOpen_NeverCloses(name, r) ==
    (last_status[name] # "DOWN" /\ r[name] = "DOWN") \/ incident_open[name]

\* incident_open[name] after both ifs of the loop body
TrackedOpen(name, r) ==
    LET o1 == IF IncidentOpens(name, r) THEN TRUE ELSE incident_open[name]
    IN IF o1 /\ r[name] # "DOWN" THEN FALSE ELSE o1

\* variant: an opened incident is counted twice
TrackedCounter_Twice(name, r) ==
    IF IncidentOpens(name, r) THEN down_counter[name] + 2 ELSE down_counter[name]

TrackedCounter(name, r) ==
    IF IncidentOpens(name, r) THEN down_counter[name] + 1 ELSE down_counter[name]

TrackedTimes(name, r) ==
    IF IncidentOpens(name, r) THEN Append(down_times[name], HHMM(now)) ELSE down_times[name]

\* ---- the scheduler

\* variant: the weekday range reaches Saturday (0 <= wd <= 5)
NeedRekap_SaturdayAfternoon(t) ==
    LET wd == Weekday(t.date)
    IN \/ 0 <= wd /\ wd <= 5 /\ t.h = 15 /\ t.m = 30
       \/ wd = 5 /\ t.h = 13 /\ t.m = 30

\* need, lines 587-592: Mon-Fri 15:30, Saturday 13:30
NeedRekap(t) ==
    LET wd == Weekday(t.date)
    IN \/ 0 <= wd /\ wd <= 4 /\ t.h = 15 /\ t.m = 30
       \/ wd = 5 /\ t.h = 13 /\ t.m = 30

\* need and self.last_rekap_day != now.date()
RekapDue(t, last) == NeedRekap(t) /\ last # t.date

\* variant: the recap leaves the counters as they are
ResetCounter_Keep(cnt) == cnt

\* variant: the reset loop stops after the first target
ResetCounter_First(cnt) == [n \in TARGETS |-> IF n = REKAP_ORDER[1] THEN 0 ELSE cnt[n]]

\* the counters after the reset loop of a recap
ResetCounter(cnt) == [n \in TARGETS |-> 0]

\* variant: the reset loop forgets down_times
ResetTimes_Keep(tms) == tms

\* down_times after the reset loop of a recap
ResetTimes(tms) == [n \in TARGETS |-> <<>>]

\* variant: rekap_now leaves last_rekap_day alone
ManualRekapDay_Untouched(t, last) == last

\* self.last_rekap_day after rekap_now at instant t
ManualRekapDay(t, last) == t.date

\* variant: the scheduled recap does not record its day
ScheduledRekapDay_Forgotten(t, last) == last

\* self.last_rekap_day after a scheduled recap at instant t
ScheduledRekapDay(t, last) == t.date

\* variant: the recap decision runs before the tracker loop and writes the
\* counters the tick began with
RecapCounter_BeforeTracker(cnt) == down_counter

\* self.down_counter as schedule_rekap_if_needed passes it to write_rekap:
\* the call follows the tracker loop (675)
RecapCounter(cnt) == cnt

\* variant: an append that raised goes unnoticed and the recap carries on
AppendRaised_Unnoticed(w) == FALSE

\* write_rekap raised: the statements after the call are skipped
AppendRaised(w) == w.raised

\* ---- observers

\* a transition into DOWN: the status fed is DOWN and the one before is not
FedDown(name, r) == r[name] = "DOWN" /\ last_status[name] # "DOWN"

LogEntry(kind, cnt, tms, days, w) ==
    [date |-> now.date, at |-> now, kind |-> kind, counts |-> cnt, times |-> tms,
     days |-> days, into |-> w.stored, last |-> last_rekap_day]

NoDays == [n \in TARGETS |-> <<>>]

\* ---- state after construction (MonitorApp.__init__, HeadlessPingMonitor.__init__)
InitMonitor(t0) ==
    /\ last_status = [n \in TARGETS |-> "INIT"]
    /\ incident_open = [n \in TARGETS |-> FALSE]
    /\ down_counter = [n \in TARGETS |-> 0]
    /\ down_times = [n \in TARGETS |-> <<>>]
    /\ last_rekap_day = 0
    /\ tick_lock = FALSE
    /\ timer = "pending"
    /\ now = t0

InitObservers ==
    /\ nticks = 0 /\ nmanual = 0 /\ nops = 0
    /\ last_op = "init"
    /\ written = <<>>
    /\ opened = [n \in TARGETS |-> 0]
    /\ open_days = NoDays
    /\ fed = [n \in TARGETS |-> <<>>]
    /\ fed_times = <<>>
    /\ tick_pc = "idle"
    /\ probe = [n \in TARGETS |-> [state |-> "none"]]
    /\ results = <<>>
    /\ in_tick = 0
    /\ executor = "running"
    /\ last_call = [op |-> "none"]

\* ensure_workbook(REKAP_FILE) of the constructor, in an empty directory
InitStore ==
    /\ excel \in BOOLEAN
    /\ LET e == ensure_workbook(NoXlsx, NoCsv, excel, {})
       IN xlsx = e.xlsx /\ csv = e.csv
    /\ query = EmptyQuery

\* started on Friday 06/11/2026 at 10:00:00
Init ==
    /\ InitMonitor([date |-> 739926, h |-> 10, m |-> 0, s |-> 0])
    /\ InitStore
    /\ InitObservers

\* ---- the wall clock advances to a later instant; a pending timer expires.
\* The main loop runs an expired tick before the clock reaches the next
\* sampled instant, so the clock does not pass a due timer.
Elapse(to) ==
    /\ timer # "due"
    /\ Later(now, to)
    /\ now' = to
    /\ timer' = IF timer = "pending" THEN "due" ELSE timer
    /\ last_op' = "elapse"
    /\ UNCHANGED <<last_status, incident_open, down_counter, down_times,
                   last_rekap_day, tick_lock, store_vars,
                   nticks, nmanual, nops, written, opened, open_days>>

\* ---- MonitorApp.tick with the dispatch returning r; faults are the I/O
\* steps that fail should this tick write the recap

\* the firing that finds the lock held
TickDefer ==
    \* acquire(blocking=False) fails: self.after(200, self.tick); return
    /\ timer' = "pending"
    /\ last_op' = "tick_deferred"
    /\ UNCHANGED <<last_status, incident_open, down_counter, down_times,
                   last_rekap_day, tick_lock, now, store_vars,
                   nticks, nmanual, nops, written, opened, open_days>>

\* tick from line 638 on, with the lock held and the dispatch returning r
TickBody(r, faults) ==
            LET cnt  == [n \in TARGETS |-> TrackedCounter(n, r)]
                tms  == [n \in TARGETS |-> TrackedTimes(n, r)]
                days == [n \in TARGETS |->
                            IF FedDown(n, r) THEN Append(open_days[n], now.date)
                            ELSE open_days[n]]
                w    == write_rekap(xlsx, csv, excel, faults, now.date, RecapCounter(cnt), tms)
            IN  /\ last_status' = r
                /\ incident_open' = [n \in TARGETS |-> TrackedOpen(n, r)]
                /\ opened' = [n \in TARGETS |->
                                IF FedDown(n, r) THEN opened[n] + 1 ELSE opened[n]]
                /\ nticks' = nticks + 1
                /\ UNCHANGED <<now, excel, query, nmanual, nops>>
                /\ IF ~RekapDue(now, last_rekap_day) THEN
                        /\ down_counter' = cnt
                        /\ down_times' = tms
                        /\ open_days' = days
                        /\ tick_lock' = FALSE
                        /\ timer' = "pending"
                        /\ last_op' = "tick"
                        /\ UNCHANGED <<last_rekap_day, xlsx, csv, written>>
                   ELSE IF AppendRaised(w) THEN
                        \* the exception leaves tick: no release, no after()
                        /\ down_counter' = cnt
                        /\ down_times' = tms
                        /\ open_days' = days
                        /\ xlsx' = w.xlsx
                        /\ csv' = w.csv
                        /\ tick_lock' = TRUE
                        /\ timer' = "none"
                        /\ last_op' = "tick_raised"
                        /\ UNCHANGED <<last_rekap_day, written>>
                   ELSE
                        /\ down_counter' = ResetCounter(cnt)
                        /\ down_times' = ResetTimes(tms)
                        /\ open_days' = NoDays
                        /\ last_rekap_day' = ScheduledRekapDay(now, last_rekap_day)
                        /\ xlsx' = w.xlsx
                        /\ csv' = w.csv
                        /\ written' = Append(written, LogEntry("sched", cnt, tms, days, w))
                        /\ tick_lock' = FALSE
                        /\ timer' = "pending"
                        /\ last_op' = "tick_flush"

Tick(r, faults) ==
    /\ timer = "due"
    /\ IF tick_lock THEN TickDefer ELSE TickBody(r, faults)

\* ---- MonitorApp.rekap_now, the "Rekap Now" button
RekapNow(faults) ==
    LET w == write_rekap(xlsx, csv, excel, faults, now.date, down_counter, down_times)
    IN  /\ nmanual' = nmanual + 1
        /\ xlsx' = w.xlsx
        /\ csv' = w.csv
        /\ UNCHANGED <<last_status, incident_open, tick_lock, timer, now, excel, query,
                       nticks, nops, opened>>
        /\ IF AppendRaised(w) THEN
                /\ last_op' = "manual_raised"
                /\ UNCHANGED <<down_counter, down_times, last_rekap_day, written, open_days>>
           ELSE
                /\ down_counter' = ResetCounter(down_counter)
                /\ down_times' = ResetTimes(down_times)
                /\ open_days' = NoDays
                /\ last_rekap_day' = ManualRekapDay(now, last_rekap_day)
                /\ written' = Append(written,
                                LogEntry("manual", down_counter, down_times, open_days, w))
                /\ last_op' = "manual"

\* the I/O faults Spec draws for a recap: none; the workbook cannot be saved;
\* neither file can be written
RecapFaults == {{}, {"save_xlsx"}, {"save_xlsx", "open_csv"}}

Next ==
    \/ \E to \in Instants : Elapse(to) /\ UNCHANGED <<fed, fed_times, tick_vars, last_call>>
    \/ \E r \in Results, f \in RecapFaults :
          /\ nticks + nmanual < MaxSteps
          /\ f = {} \/ RekapDue(now, last_rekap_day)
          /\ Tick(r, f) /\ UNCHANGED <<fed, fed_times, tick_vars, last_call>>
    \/ \E f \in RecapFaults :
          nticks + nmanual < MaxSteps /\ RekapNow(f) /\ UNCHANGED <<fed, fed_times, tick_vars, last_call>>

Spec == Init /\ [][Next]_vars

\* --------------------------------------------------------------- SpecTick
\* tick step by step: the firing acquires the lock and submits one probe per
\* target; the probes end in any order; the as_completed loop collects every
\* future that is done; then the tracker update and the recap decision run
\* and the lock is released.

\* variant: acquire leaves the lock free
LockAcquired_Free == FALSE

\* self._tick_lock after acquire(blocking=False) returned True
LockAcquired == TRUE

TickAcquire ==
    /\ tick_lock' = LockAcquired
    /\ timer' = "none"
    /\ in_tick' = in_tick + 1
    /\ IF executor = "shutdown" THEN
            \* executor.submit raises RuntimeError, which leaves tick
            /\ last_op' = "tick_raised"
            /\ UNCHANGED <<tick_pc, probe, results>>
       ELSE
            /\ tick_pc' = "probing"
            /\ probe' = [n \in TARGETS |-> [state |-> "running"]]
            /\ results' = <<>>
            /\ last_op' = "tick_acquired"
    /\ UNCHANGED <<last_status, incident_open, down_counter, down_times,
                   last_rekap_day, now, store_vars, executor,
                   nticks, nmanual, nops, written, opened, open_days>>

\* the after() job runs tick
TickFire ==
    /\ timer = "due"
    /\ IF tick_lock THEN TickDefer /\ UNCHANGED tick_vars ELSE TickAcquire

\* the probe of target name ends
ProbeDone(name, run) ==
    /\ tick_pc = "probing"
    /\ probe[name].state = "running"
    /\ probe' = [probe EXCEPT ![name] = FutureOf(run)]
    /\ UNCHANGED <<monitor_vars, store_vars, nticks, nmanual, nops, last_op, written,
                   opened, open_days, tick_pc, results, in_tick, executor>>

\* one round of the as_completed loop, for a future that is done
Collect(name) ==
    /\ tick_pc = "probing"
    /\ probe[name].state = "done"
    /\ name \notin DOMAIN results
    /\ results' = [n \in DOMAIN results \cup {name} |->
                      IF n = name THEN FutureResult(probe[name]) ELSE results[n]]
    /\ UNCHANGED <<monitor_vars, store_vars, nticks, nmanual, nops, last_op, written,
                   opened, open_days, tick_pc, probe, in_tick, executor>>

\* results.get(name, "DOWN") for every target
Dispatched == [n \in TARGETS |-> IF n \in DOMAIN results THEN results[n] ELSE "DOWN"]

\* as_completed is exhausted: the rest of tick runs
TickFinish(faults) ==
    /\ tick_pc = "probing"
    /\ \A n \in TARGETS : probe[n].state = "done" /\ n \in DOMAIN results
    /\ TickBody(Dispatched, faults)
    /\ tick_pc' = "idle"
    /\ in_tick' = IF tick_lock' THEN in_tick ELSE in_tick - 1
    /\ UNCHANGED <<probe, results, executor>>

\* variant: on_close runs while tick waits in as_completed
MainThreadFree_Always == TRUE

\* The main loop runs one callback at a time (the tray thread hands its
\* exit over with after(0, ...)): on_close starts when no tick is running.
MainThreadFree == tick_pc = "idle"

\* the after() jobs once destroy() has ended the main loop
TimerAfterDestroy == "none"

\* MonitorApp.on_close: the pool is shut down without waiting, then the
\* window is destroyed.  max_workers is the number of targets, so every
\* submitted probe is running and cancel_futures finds nothing to cancel.
OnClose ==
    /\ executor = "running"
    /\ MainThreadFree
    /\ executor' = "shutdown"
    /\ timer' = TimerAfterDestroy
    /\ last_op' = "on_close"
    /\ UNCHANGED <<last_status, incident_open, down_counter, down_times,
                   last_rekap_day, tick_lock, now, store_vars,
                   nticks, nmanual, nops, written, opened, open_days,
                   tick_pc, probe, results, in_tick>>

\* the instants at which SpecTick samples the clock
TickInstants ==
    { [date |-> 739926, h |-> 15, m |-> 30, s |-> 0],
      [date |-> 739926, h |-> 15, m |-> 30, s |-> 3] }

\* The dispatch is over before the clock reaches the next sampled instant.
NextTick ==
    \/ \E to \in TickInstants :
          tick_pc = "idle" /\ Elapse(to) /\ UNCHANGED <<fed, fed_times, tick_vars, last_call>>
    \/ nticks < MaxDispatch /\ TickFire /\ UNCHANGED <<fed, fed_times, last_call>>
    \/ \E n \in TARGETS, run \in PingRuns \cup {WorkerError} :
          ProbeDone(n, run) /\ UNCHANGED <<fed, fed_times, last_call>>
    \/ \E n \in TARGETS : Collect(n) /\ UNCHANGED <<fed, fed_times, last_call>>
    \/ \E f \in RecapFaults :
          /\ f = {} \/ RekapDue(now, last_rekap_day)
          /\ TickFinish(f) /\ UNCHANGED <<fed, fed_times, last_call>>
    \/ OnClose /\ UNCHANGED <<fed, fed_times, last_call>>

SpecTick == Init /\ [][NextTick]_vars

\* ------------------------------------------------------------ SpecTracker
\* The tracker fed one dispatch every five minutes from 10:00 on Wednesday
\* 04/11/2026, a day and time without recap; fed and fed_times record the feed.
InitTracker ==
    /\ InitMonitor([date |-> 739924, h |-> 9, m |-> 55, s |-> 0])
    /\ InitStore
    /\ InitObservers

NextTracker ==
    \/ /\ nticks < MaxFeed
       /\ Elapse(PlusFive(now))
       /\ UNCHANGED <<fed, fed_times, tick_vars, last_call>>
    \/ \E r \in Results :
          /\ Tick(r, {})
          /\ fed' = [n \in TARGETS |-> Append(fed[n], r[n])]
          /\ fed_times' = Append(fed_times, HHMM(now))
          /\ UNCHANGED <<tick_vars, last_call>>

SpecTracker == InitTracker /\ [][NextTracker]_vars

\* -------------------------------------------------------------- SpecSched
\* The scheduler decision on every day of a week, entered at 10:00 with no
\* recap so far, the last recap yesterday, or the last recap today.
InitSched ==
    /\ \E d \in WeekDays :
          /\ now = [date |-> d, h |-> 10, m |-> 0, s |-> 0]
          /\ last_rekap_day \in {0, d - 1, d}
    /\ last_status = [n \in TARGETS |-> IF last_rekap_day = 0 THEN "INIT" ELSE "UP"]
    /\ incident_open = [n \in TARGETS |-> FALSE]
    /\ down_counter = [n \in TARGETS |-> 0]
    /\ down_times = [n \in TARGETS |-> <<>>]
    /\ tick_lock = FALSE
    /\ timer = "pending"
    /\ InitStore
    /\ InitObservers

NextSched ==
    \/ \E to \in SchedInstants :
          /\ to.date <= now.date + 1
          /\ Elapse(to) /\ UNCHANGED <<fed, fed_times, tick_vars, last_call>>
    \/ \E r \in Results, f \in RecapFaults :
          /\ nticks < MaxSchedTicks
          /\ f = {} \/ RekapDue(now, last_rekap_day)
          /\ Tick(r, f) /\ UNCHANGED <<fed, fed_times, tick_vars, last_call>>

SpecSched == InitSched /\ [][NextSched]_vars

\* -------------------------------------------------------------- SpecStore
\* The report store driven directly, from every state the report files can
\* be found in at startup.

\* a row written on Thursday 05/11/2026: Server down once at 09:30
OldCounts == [n \in TARGETS |-> IF n = REKAP_ORDER[1] THEN 1 ELSE 0]

OldTimes == [n \in TARGETS |-> IF n = REKAP_ORDER[1] THEN <<"09:30">> ELSE <<>>]

OldXlsxRow == XlsxRow(739925, OldCounts, OldTimes)

OldCsvRow == CsvRow(739925, OldCounts, OldTimes)

\* the same row as the release without JamDown columns wrote it
LegacyCells(row) == SubSeq(row, 1, 1 + Len(REKAP_ORDER))

XlsxFile(readable, header, body) ==
    [exists |-> TRUE, readable |-> readable, header |-> header, body |-> body,
     has_grafik |-> FALSE, grafik |-> <<>>]

\* thirty rows, 07/10/2026 to 05/11/2026: Server down once on every other
\* day, nothing down on the days between
MonthBody ==
    [k \in 1..30 |->
        XlsxRow(739895 + k,
                [n \in TARGETS |-> IF n = REKAP_ORDER[1] THEN k % 2 ELSE 0],
                [n \in TARGETS |-> IF n = REKAP_ORDER[1] /\ k % 2 = 1 THEN <<"09:30">> ELSE <<>>])]

\* absent; current header without and with a row; a month of rows; legacy
\* header with a row; another first header cell; a file load_workbook cannot
\* read
XlsxFiles ==
    { NoXlsx,
      XlsxFile(TRUE, CurrentHeader, MonthBody),
      XlsxFile(TRUE, CurrentHeader, <<>>),
      XlsxFile(TRUE, CurrentHeader, <<OldXlsxRow>>),
      XlsxFile(TRUE, LegacyHeader, <<LegacyCells(OldXlsxRow)>>),
      XlsxFile(TRUE, <<"Date">> \o Tail(CurrentHeader), <<OldXlsxRow>>),
      XlsxFile(FALSE, CurrentHeader, <<OldXlsxRow>>) }

\* absent; header only; header and a row; legacy header and row; a file the
\* fallback of write_rekap created, which has no header line
CsvFiles ==
    { NoCsv,
      [exists |-> TRUE, lines |-> <<CurrentHeader>>],
      [exists |-> TRUE, lines |-> <<CurrentHeader, OldCsvRow>>],
      [exists |-> TRUE, lines |-> <<LegacyHeader, LegacyCells(OldCsvRow)>>],
      [exists |-> TRUE, lines |-> <<OldCsvRow>>] }

InitStoreSpec ==
    /\ InitMonitor([date |-> 739926, h |-> 10, m |-> 0, s |-> 0])
    /\ InitObservers
    /\ excel \in BOOLEAN
    /\ xlsx \in XlsxFiles
    /\ csv \in CsvFiles
    /\ query = EmptyQuery

StoreFaults == SUBSET {"save_xlsx", "open_csv", "grafik"}

\* the rows SpecStore appends: on Friday 06/11/2026, every target down at
\* most once, at 10:00
NewCounts == [TARGETS -> 0..1]

NewTimes(counters) == [n \in TARGETS |-> IF counters[n] > 0 THEN <<"10:00">> ELSE <<>>]

\* ensure_workbook(REKAP_FILE)
StoreEnsure(faults) ==
    LET e == ensure_workbook(xlsx, csv, excel, faults)
    IN  /\ xlsx' = e.xlsx
        /\ csv' = e.csv
        /\ nops' = nops + 1
        /\ last_op' = IF e.raised THEN "ensure_raised" ELSE "ensure"
        /\ last_call' = [op |-> "ensure", faults |-> faults, raised |-> e.raised,
                         existed |-> IF excel THEN xlsx.exists ELSE csv.exists]
        /\ UNCHANGED <<monitor_vars, excel, query, nticks, nmanual, written,
                       opened, open_days, fed, fed_times, tick_vars>>

\* write_rekap(today, counters, jam_map)
StoreWrite(faults, today, counters, jam_map) ==
    LET w == write_rekap(xlsx, csv, excel, faults, today, counters, jam_map)
    IN  /\ xlsx' = w.xlsx
        /\ csv' = w.csv
        /\ nops' = nops + 1
        /\ last_op' = IF w.raised THEN "write_raised" ELSE "write_" \o w.stored
        /\ last_call' = [op |-> "write", faults |-> faults, raised |-> w.raised,
                         counters |-> counters, jam_map |-> jam_map, today |-> today]
        /\ UNCHANGED <<monitor_vars, excel, query, nticks, nmanual, written,
                       opened, open_days, fed, fed_times, tick_vars>>

\* read_last_7_days()
StoreRead ==
    /\ query' = read_last_7_days(xlsx, csv, excel)
    /\ nops' = nops + 1
    /\ last_op' = "read"
    /\ last_call' = [op |-> "read"]
    /\ UNCHANGED <<monitor_vars, excel, xlsx, csv, nticks, nmanual, written,
                   opened, open_days, fed, fed_times, tick_vars>>

NextStore ==
    \/ \E f \in StoreFaults : nops < MaxStoreOps /\ StoreEnsure(f)
    \/ \E f \in StoreFaults, c \in NewCounts :
          nops < MaxStoreOps /\ StoreWrite(f, 739926, c, NewTimes(c))
    \/ nops < MaxStoreOps /\ StoreRead

SpecStore == InitStoreSpec /\ [][NextStore]_vars

\* -------------------------------------------------------------- SpecQuery
\* read_last_7_days on reports of every length around the window, with and
\* without openpyxl, between appends of rows for Friday 06/11/2026.

\* the seven rows 30/10/2026 to 05/11/2026
WeekBody == SubSeq(MonthBody, 24, 30)

\* a workbook edited by hand: no column for the second target, a row that
\* ends after the date, a count cell that holds text
RaggedXlsx ==
    XlsxFile(TRUE, <<"Tanggal", "Down " \o REKAP_ORDER[1]>>,
             << <<[str |-> "02/11/2026"], [int |-> 2]>>,
                <<[str |-> "03/11/2026"]>>,
                <<[str |-> "04/11/2026"], [str |-> "n/a"]>> >>)

\* the same report as CSV lines
RaggedCsv ==
    [exists |-> TRUE,
     lines |-> << <<"Tanggal", "Down " \o REKAP_ORDER[1]>>,
                  <<"02/11/2026", "2">>,
                  <<"03/11/2026">>,
                  <<"04/11/2026", "n/a">> >>]

WeekCsv ==
    [exists |-> TRUE,
     lines |-> <<CurrentHeader>> \o
               [k \in 1..7 |->
                   CsvRow(739918 + k,
                          [n \in TARGETS |-> IF n = REKAP_ORDER[1] THEN k % 2 ELSE 0],
                          [n \in TARGETS |-> IF n = REKAP_ORDER[1] /\ k % 2 = 1
                                              THEN <<"09:30">> ELSE <<>>])]]

QueryXlsxFiles ==
    { NoXlsx,
      XlsxFile(TRUE, CurrentHeader, <<>>),
      XlsxFile(TRUE, CurrentHeader, WeekBody),
      RaggedXlsx,
      XlsxFile(FALSE, CurrentHeader, <<OldXlsxRow>>) }

QueryCsvFiles ==
    { NoCsv,
      [exists |-> TRUE, lines |-> <<CurrentHeader>>],
      WeekCsv,
      RaggedCsv }

InitQuery ==
    /\ InitMonitor([date |-> 739926, h |-> 10, m |-> 0, s |-> 0])
    /\ InitObservers
    /\ excel \in BOOLEAN
    /\ xlsx \in QueryXlsxFiles
    /\ csv \in QueryCsvFiles
    /\ query = EmptyQuery

NextQuery ==
    \/ \E c \in NewCounts :
          nops < MaxQueryOps /\ StoreWrite({}, 739926, c, NewTimes(c))
    \/ nops < MaxQueryOps /\ StoreRead

SpecQuery == InitQuery /\ [][NextQuery]_vars

\* ----------------------------------------------------------- SpecBackends
\* Two installations driven in lockstep from the same logical report: one
\* with openpyxl, whose report is xlsx, and one without, whose report is csv.
\* query holds what each of them returned last.

BackendPairs ==
    { <<NoXlsx, NoCsv>>,
      <<XlsxFile(TRUE, CurrentHeader, <<>>), [exists |-> TRUE, lines |-> <<CurrentHeader>>]>>,
      <<XlsxFile(TRUE, CurrentHeader, <<OldXlsxRow>>),
        [exists |-> TRUE, lines |-> <<CurrentHeader, OldCsvRow>>]>>,
      <<XlsxFile(TRUE, LegacyHeader, <<LegacyCells(OldXlsxRow)>>),
        [exists |-> TRUE, lines |-> <<LegacyHeader, LegacyCells(OldCsvRow)>>]>> }

InitBackends ==
    /\ InitMonitor([date |-> 739926, h |-> 10, m |-> 0, s |-> 0])
    /\ InitObservers
    /\ excel = TRUE
    /\ \E pr \in BackendPairs : xlsx = pr[1] /\ csv = pr[2]
    /\ query = [rich |-> EmptyQuery, plain |-> EmptyQuery]

BothEnsure ==
    /\ xlsx' = ensure_workbook(xlsx, NoCsv, TRUE, {}).xlsx
    /\ csv' = ensure_workbook(NoXlsx, csv, FALSE, {}).csv
    /\ nops' = nops + 1
    /\ last_op' = "ensure"
    /\ last_call' = [op |-> "ensure", faults |-> {}, raised |-> FALSE]
    /\ UNCHANGED <<monitor_vars, excel, query, nticks, nmanual, written,
                   opened, open_days, fed, fed_times, tick_vars>>

BothWrite(today, counters, jam_map) ==
    /\ xlsx' = write_rekap(xlsx, NoCsv, TRUE, {}, today, counters, jam_map).xlsx
    /\ csv' = write_rekap(NoXlsx, csv, FALSE, {}, today, counters, jam_map).csv
    /\ nops' = nops + 1
    /\ last_op' = "write"
    /\ last_call' = [op |-> "write", faults |-> {}, raised |-> FALSE,
                     counters |-> counters, jam_map |-> jam_map, today |-> today]
    /\ UNCHANGED <<monitor_vars, excel, query, nticks, nmanual, written,
                   opened, open_days, fed, fed_times, tick_vars>>

BothRead ==
    /\ query' = [rich  |-> read_last_7_days(xlsx, NoCsv, TRUE),
                 plain |-> read_last_7_days(NoXlsx, csv, FALSE)]
    /\ nops' = nops + 1
    /\ last_op' = "read"
    /\ last_call' = [op |-> "read"]
    /\ UNCHANGED <<monitor_vars, excel, xlsx, csv, nticks, nmanual, written,
                   opened, open_days, fed, fed_times, tick_vars>>

NextBackends ==
    \/ nops < MaxStoreOps /\ BothEnsure
    \/ \E c \in NewCounts : nops < MaxStoreOps /\ BothWrite(739926, c, NewTimes(c))
    \/ nops < MaxStoreOps /\ BothRead

SpecBackends == InitBackends /\ [][NextBackends]_vars

\* ================================================================ claims

\* ---- what the report holds for a target, read back from the files

RECURSIVE SumXlsx(_, _)
SumXlsx(rows, col) ==
    IF rows = <<>> THEN 0 ELSE CountAt(rows[1], col) + SumXlsx(Tail(rows), col)

RECURSIVE SumCsv(_, _)
SumCsv(lines, col) ==
    IF lines = <<>> THEN 0
    ELSE (IF col <= Len(lines[1]) /\ ParseInt(lines[1][col]) >= 0
          THEN ParseInt(lines[1][col]) ELSE 0)
         + SumCsv(Tail(lines), col)

\* the counts stored for target n in the workbook and in the CSV file
StoredCount(n) ==
    SumXlsx(xlsx.body, HeaderColumn(xlsx.header, "Down " \o n))
    + SumCsv(csv.lines, HeaderColumn(CurrentHeader, "Down " \o n))

\* a step that is a tick which acquired the lock
TickStep == nticks' = nticks + 1

\* a step that is a press of "Rekap Now"
ManualStep == nmanual' = nmanual + 1

\* C1: in every reachable state, whatever the ticks, scheduled recaps and
\* manual recaps before it, each target's down_counter equals the length of
\* its down_times.
C1_CounterMatchesTimes == \A n \in TARGETS : down_counter[n] = Len(down_times[n])

\* an incident is counted after a recap has reset the counters
C1_Witness ==
    /\ last_op = "tick"
    /\ written # <<>>
    /\ \E n \in TARGETS : down_counter[n] = 1 /\ Len(down_times[n]) = 1

\* ---- C2
\* the positions of a feed that are DOWN and not preceded by DOWN
Rising(seq) == {i \in DOMAIN seq : seq[i] = "DOWN" /\ (i = 1 \/ seq[i - 1] # "DOWN")}

RECURSIVE RisingTimes(_, _, _)
\* the tick times at the rising positions i, i+1, ... of a feed, in order
RisingTimes(seq, times, i) ==
    IF i > Len(seq) THEN <<>>
    ELSE (IF i \in Rising(seq) THEN <<times[i]>> ELSE <<>>) \o RisingTimes(seq, times, i + 1)

\* C2: with no recap in between, starting from the initial state, the final
\* down_counter is the number of positions fed DOWN whose preceding status is
\* not DOWN, and down_times holds the HH:MM of those ticks in order; a
\* DOWN,DOWN,DOWN run counts once, DOWN,UP,DOWN twice, and the two-target
\* scenario at 10:00..10:15 ends with A = 1 [10:05] closed, B = 1 [10:10] open.
C2_CountsEpisodes ==
    LET A == REKAP_ORDER[1]
        B == REKAP_ORDER[2]
    IN  /\ \A n \in TARGETS :
              /\ down_counter[n] = Cardinality(Rising(fed[n]))
              /\ down_times[n] = RisingTimes(fed[n], fed_times, 1)
              /\ fed[n] = <<"DOWN", "DOWN", "DOWN">> => down_counter[n] = 1
              /\ fed[n] = <<"DOWN", "UP", "DOWN">> => down_counter[n] = 2
        /\ (fed[A] = <<"UP", "DOWN", "DOWN", "UP">> /\ fed[B] = <<"UP", "UP", "DOWN", "DOWN">>)
              => /\ down_counter[A] = 1 /\ down_times[A] = <<"10:05">> /\ ~incident_open[A]
                 /\ down_counter[B] = 1 /\ down_times[B] = <<"10:10">> /\ incident_open[B]

\* the scenario has been fed to the end
C2_Witness ==
    /\ fed[REKAP_ORDER[1]] = <<"UP", "DOWN", "DOWN", "UP">>
    /\ fed[REKAP_ORDER[2]] = <<"UP", "UP", "DOWN", "DOWN">>
    /\ fed_times = <<"10:00", "10:05", "10:10", "10:15">>

\* C3: for every target, the counts of the rows stored in the report so far
\* plus the current down_counter equal the number of incidents opened for it
\* since startup: no incident is dropped or reported in two rows.
C3_ExactlyOncePerIncident ==
    \A n \in TARGETS : StoredCount(n) + down_counter[n] = opened[n]

\* one incident sits in a stored row while another is still in the counters
C3_Witness ==
    /\ written # <<>>
    /\ \E n \in TARGETS : StoredCount(n) >= 1
    /\ \E n \in TARGETS : down_counter[n] >= 1

\* C4: in the initial state and after every tick, scheduled recap and manual
\* recap, incident_open is true exactly for the targets whose last_status is DOWN.
C4_OpenIffDown == \A n \in TARGETS : incident_open[n] <=> (last_status[n] = "DOWN")

\* after a recap, one target is down and another has recovered from an incident
C4_Witness ==
    /\ written # <<>>
    /\ \E n \in TARGETS : incident_open[n] /\ last_status[n] = "DOWN"
    /\ \E n \in TARGETS : ~incident_open[n] /\ last_status[n] = "UP" /\ opened[n] >= 1

\* C5: a recap, scheduled or manual, zeroes every down_counter and empties
\* every down_times and leaves last_status and incident_open as the tracker
\* set them; a target whose incident is open with nothing counted since the
\* recap and that is fed DOWN again stays at count 0 with no timestamp.
C5_FlushKeepsIncidents ==
    [][ /\ (ManualStep /\ last_op' = "manual")
            => /\ \A n \in TARGETS : down_counter'[n] = 0 /\ down_times'[n] = <<>>
               /\ last_status' = last_status
               /\ incident_open' = incident_open
        /\ (TickStep /\ last_op' = "tick_flush")
            => /\ \A n \in TARGETS : down_counter'[n] = 0 /\ down_times'[n] = <<>>
               /\ last_status' \in Results
               /\ \A n \in TARGETS : incident_open'[n] <=> (last_status'[n] = "DOWN")
        /\ TickStep
            => \A n \in TARGETS :
                  (/\ incident_open[n] /\ down_counter[n] = 0 /\ down_times[n] = <<>>
                   /\ last_status'[n] = "DOWN")
                  => incident_open'[n] /\ down_counter'[n] = 0 /\ down_times'[n] = <<>>
      ]_vars

\* an incident open across a recap was fed DOWN again and is still not counted
C5_Witness ==
    /\ last_op = "tick"
    /\ written # <<>>
    /\ \E n \in TARGETS :
          /\ incident_open[n] /\ down_counter[n] = 0 /\ down_times[n] = <<>>
          /\ written[Len(written)].counts[n] = 1

\* ---- C6..C9: the recap policy, stated without the scheduler's operators

\* Monday to Friday at 15:30, Saturday at 13:30
BoundaryMinute(t) ==
    \/ Weekday(t.date) \in {0, 1, 2, 3, 4} /\ <<t.h, t.m>> = <<15, 30>>
    \/ Weekday(t.date) = 5 /\ <<t.h, t.m>> = <<13, 30>>

\* the rows of the log that the scheduled path (or the manual path) wrote on date d
RowsOn(kind, d) == {i \in DOMAIN written : written[i].kind = kind /\ written[i].date = d}

\* C6: over any sequence of ticks, several of them inside the same boundary
\* minute included, the scheduled recap appends at most one row per calendar date.
C6_OneScheduledRowPerDay ==
    \A i, j \in DOMAIN written :
        (i < j /\ written[i].kind = "sched" /\ written[j].kind = "sched")
            => written[i].date # written[j].date

\* a second tick inside the boundary minute, after the first one wrote the recap
C6_Witness ==
    /\ last_op = "tick"
    /\ BoundaryMinute(now) /\ now.s = 3
    /\ last_rekap_day = now.date
    /\ Cardinality(RowsOn("sched", now.date)) = 1

C8_FiresExactlyAtBoundary ==
    [][ /\ TickStep
            => ( (last_op' \in {"tick_flush", "tick_raised"})
                 <=> (BoundaryMinute(now) /\ last_rekap_day # now.date) )
        /\ (TickStep /\ last_op' = "tick_flush")
            => Len(written') = Len(written) + 1 /\ last_rekap_day' = now.date
        /\ (TickStep /\ last_op' # "tick_flush")
            => written' = written /\ last_rekap_day' = last_rekap_day
      ]_vars

\* Wednesday 15:30 with the last recap yesterday has fired
C8_Witness ==
    /\ last_op = "tick_flush"
    /\ Weekday(now.date) = 2 /\ now.h = 15 /\ now.m = 30
    /\ written[Len(written)].kind = "sched"
    /\ written[Len(written)].last = now.date - 1

\* C9 as claimed: every stored row stamped with date D reports, for each
\* target, exactly the incidents opened on D since the previous recap.
C9_RowsReportOwnDate ==
    \A i \in DOMAIN written : \A n \in TARGETS :
        LET e == written[i]
        IN  /\ \A k \in DOMAIN e.days[n] : e.days[n][k] = e.date
            /\ e.counts[n] = Cardinality({k \in DOMAIN e.days[n] : e.days[n][k] = e.date})

\* C10 as claimed: whatever state the report files are found in, no store
\* operation deletes or changes a data row already stored.
C10_AppendOnly ==
    [][ /\ IsPrefix(xlsx.body, xlsx'.body)
        /\ IsPrefix(csv.lines, csv'.lines) ]_vars

\* ---- the store call a step of SpecStore made

WriteStep == nops' = nops + 1 /\ last_call'.op = "write"

EnsureStep == nops' = nops + 1 /\ last_call'.op = "ensure"

WroteAndReturned == last_call.op = "write" /\ ~last_call.raised

\* the row of the last write_rekap call, as each backend stores it
CalledXlsxRow(call) == XlsxRow(call.today, call.counters, call.jam_map)

CalledCsvRow(call) == CsvRow(call.today, call.counters, call.jam_map)

\* C11 as claimed: after write_rekap has returned, whichever file the row
\* went to, read_last_7_days returns the counts just written as the last
\* entry of every target.
C11_RoundTrip ==
    WroteAndReturned =>
        LET q == read_last_7_days(xlsx, csv, excel)
        IN \A n \in TARGETS :
              /\ Len(q.data[n]) >= 1
              /\ q.data[n][Len(q.data[n])] = last_call.counters[n]

KnownWorkbook(x) == x.exists /\ x.readable /\ Len(x.header) >= 1 /\ x.header[1] = "Tanggal"

HasJamDownHeaders(header) ==
    \A i \in DOMAIN JamDownHeaders : \E k \in DOMAIN header : header[k] = JamDownHeaders[i]

\* C13: ensure_workbook on a workbook with the legacy header appends the
\* JamDown header columns after the existing header cells, leaves every data
\* row and the Grafik sheet as they are, and a second run changes nothing; on
\* a workbook that has the current header it changes nothing at all.
C13_MigrationIdempotent ==
    [][ (EnsureStep /\ excel /\ KnownWorkbook(xlsx)) =>
            /\ xlsx'.body = xlsx.body
            /\ xlsx'.grafik = xlsx.grafik /\ xlsx'.has_grafik = xlsx.has_grafik
            /\ IsPrefix(xlsx.header, xlsx'.header)
            /\ csv' = csv
            /\ HasJamDownHeaders(xlsx.header) => xlsx' = xlsx
            /\ ~last_call'.raised =>
                    /\ HasJamDownHeaders(xlsx'.header)
                    /\ ensure_workbook(xlsx', csv', excel, {}).xlsx = xlsx'
            /\ last_call'.raised => xlsx' = xlsx ]_vars

\* a legacy workbook after ensure_workbook: the JamDown columns follow the
\* old header, the legacy row still has its three cells
C13_Witness ==
    /\ last_call.op = "ensure" /\ ~last_call.raised
    /\ excel
    /\ xlsx.header = LegacyHeader \o JamDownHeaders
    /\ xlsx.body = <<LegacyCells(OldXlsxRow)>>

\* ---- what a report file holds, whatever its format
CellText(cell) == IF DOMAIN cell = {"int"} THEN ToString(cell.int) ELSE cell.str

LogicalXlsx(x) ==
    [exists |-> x.exists,
     header |-> x.header,
     rows   |-> [k \in DOMAIN x.body |-> [i \in DOMAIN x.body[k] |-> CellText(x.body[k][i])]]]

LogicalCsv(c) ==
    [exists |-> c.exists,
     header |-> IF c.lines = <<>> THEN <<>> ELSE c.lines[1],
     rows   |-> IF c.lines = <<>> THEN <<>> ELSE Tail(c.lines)]

\* C14 as claimed: started from the same logical report and given the same
\* calls, the workbook backend and the CSV backend hold the same header and
\* rows and answer the query alike; so the CSV backend migrates a legacy
\* header as the workbook backend does.
C14_BackendsAgree ==
    /\ LogicalXlsx(xlsx) = LogicalCsv(csv)
    /\ query.rich = query.plain

\* ---- the Grafik table that belongs to a sequence of raw rows

GrafikHeaderRow ==
    [i \in 1..(1 + Len(REKAP_ORDER)) |-> [str |-> (<<"Tanggal">> \o REKAP_ORDER)[i]]]

\* the date of the row and its count for every target
GrafikEntry(row) == <<row[1]>> \o [i \in DOMAIN REKAP_ORDER |-> row[1 + i]]

GrafikTable(rows) ==
    LET n    == Len(rows)
        from == IF n > 30 THEN n - 30 ELSE 0
    IN <<GrafikHeaderRow>> \o [k \in 1..(n - from) |-> GrafikEntry(rows[from + k])]

AllZero(counters) == \A n \in TARGETS : counters[n] = 0

\* C15 as claimed: once the Grafik table has been written it has one entry
\* for each of the last 30 rows of the report, the all-zero rows included.
C15_TableCoversLastRows ==
    (xlsx.exists /\ xlsx.has_grafik /\ xlsx.grafik # <<>>) =>
        xlsx.grafik = GrafikTable(xlsx.body)

\* C15, amended: a Grafik table that has been written holds one entry, with
\* the per-target counts, for each of the last 30 rows the report had when
\* the table was last refreshed, the all-zero rows among them included; the
\* rows appended since, each of them all zero, are not in it.
C15_TableCoversRowsAtRefresh ==
    (xlsx.exists /\ xlsx.has_grafik /\ xlsx.grafik # <<>>) =>
        \E m \in 1..Len(xlsx.body) :
            /\ xlsx.grafik = GrafikTable(SubSeq(xlsx.body, 1, m))
            /\ \A k \in (m + 1)..Len(xlsx.body) :
                  \A i \in DOMAIN REKAP_ORDER : xlsx.body[k][1 + i] = [int |-> 0]

\* the report holds 31 rows, the table the last 30 of them, among them
\* all-zero entries
C15_Witness ==
    /\ WroteAndReturned
    /\ xlsx.has_grafik
    /\ Len(xlsx.body) = 31
    /\ Len(xlsx.grafik) = 31
    /\ xlsx.grafik[2] = GrafikEntry(xlsx.body[2])
    /\ \E k \in 2..31 : \A i \in DOMAIN REKAP_ORDER : xlsx.grafik[k][1 + i] = [int |-> 0]

\* the write_rekap step put its row into the workbook
WroteToWorkbook ==
    /\ WriteStep /\ ~last_call'.raised /\ excel
    /\ xlsx'.body =
          Append(ensure_workbook(xlsx, csv, excel, last_call'.faults).xlsx.body,
                 CalledXlsxRow(last_call'))

\* C16: a write_rekap that stores its row in the workbook refreshes the
\* Grafik sheet exactly when some count of the row is positive: then the
\* sheet is present afterwards and, unless the refresh failed, holds the
\* table of the rows including the new one; for an all-zero row the sheet is
\* neither created nor changed.
C16_RefreshIffPositive ==
    [][ WroteToWorkbook =>
            LET call == last_call'
                e    == ensure_workbook(xlsx, csv, excel, call.faults)
            IN  /\ ~AllZero(call.counters) =>
                      /\ xlsx'.has_grafik
                      /\ "grafik" \notin call.faults => xlsx'.grafik = GrafikTable(xlsx'.body)
                /\ AllZero(call.counters) =>
                      /\ xlsx'.has_grafik = e.xlsx.has_grafik
                      /\ xlsx'.grafik = e.xlsx.grafik ]_vars

\* an all-zero row was stored in a workbook that still has no Grafik sheet
C16_Witness ==
    /\ WroteAndReturned /\ excel
    /\ AllZero(last_call.counters)
    /\ xlsx.exists /\ Len(xlsx.body) >= 1
    /\ xlsx.body[Len(xlsx.body)] = CalledXlsxRow(last_call)
    /\ ~xlsx.has_grafik

\* C17: when update_grafik_sheet fails during a write_rekap whose workbook
\* can be saved, write_rekap returns, the row is the new last row of the
\* workbook and the CSV is untouched; and whatever else fails in the call,
\* the failing refresh changes neither where the row goes nor whether the
\* call raises.
C17_RefreshFailureKeepsRow ==
    [][ (WriteStep /\ "grafik" \in last_call'.faults) =>
            LET call == last_call'
                e    == ensure_workbook(xlsx, csv, excel, call.faults)
                w0   == write_rekap(xlsx, csv, excel, call.faults \ {"grafik"},
                                    call.today, call.counters, call.jam_map)
            IN  /\ (excel /\ ~e.raised /\ "save_xlsx" \notin call.faults) =>
                      /\ ~call.raised
                      /\ xlsx'.body = Append(e.xlsx.body, CalledXlsxRow(call))
                      /\ csv' = e.csv
                /\ call.raised = w0.raised
                /\ xlsx'.body = w0.xlsx.body
                /\ csv' = w0.csv ]_vars

\* the refresh failed after clearing the sheet, the row is in the workbook
C17_Witness ==
    /\ WroteAndReturned /\ excel
    /\ "grafik" \in last_call.faults
    /\ ~AllZero(last_call.counters)
    /\ xlsx.has_grafik /\ xlsx.grafik = <<>>
    /\ xlsx.body[Len(xlsx.body)] = CalledXlsxRow(last_call)

C19_LoopNeverHalts ==
    nticks > 0 => (~tick_lock /\ timer \in {"pending", "due"})

\* C20: when the dispatch is over every target has exactly one status of
\* UP, WARNING, DOWN: the one its own probe returned, and DOWN when its
\* probe raised or timed out, in whatever order the probes ended and were
\* collected.
C20_DispatchTotal ==
    (tick_pc = "probing" /\ \A n \in TARGETS : probe[n].state = "done" /\ n \in DOMAIN results) =>
        /\ DOMAIN results = TARGETS
        /\ \A n \in TARGETS :
              /\ results[n] \in Statuses
              /\ (probe[n].raised \/ probe[n].run.exc) => results[n] = "DOWN"
              /\ ~probe[n].raised => results[n] = probe[n].value

\* the dispatch is over: one probe raised and was collected first, the
\* other target answered every ping
C20_Witness ==
    /\ tick_pc = "probing"
    /\ DOMAIN results = TARGETS
    /\ probe[REKAP_ORDER[1]].state = "done" /\ probe[REKAP_ORDER[1]].raised
    /\ results[REKAP_ORDER[1]] = "DOWN"
    /\ results[REKAP_ORDER[2]] = "UP"

\* the numbers of lost replies that the statistics line of run reports
LostIn(run) == {k \in 0..PING_COUNT : run.out \in {WindowsStats(k), UnixStats(k)}}

\* C21: the status check_target returns for a probe follows the packet loss
\* of the probe: exit code 0 and no reply lost is UP, exit code 0 and some
\* but not all replies lost is WARNING in both output formats, and a probe
\* that raised, timed out, ended with a non-zero exit code or was answered
\* "unreachable" is DOWN; the status is never UP when a reply was lost.
C21_ClassifiesByLoss ==
    \A n \in TARGETS :
        (probe[n].state = "done" /\ ~probe[n].raised) =>
            LET run == probe[n].run
                st  == probe[n].value
            IN  /\ (run.exc \/ run.returncode # 0 \/ Contains(run.out, "unreachable"))
                        => st = "DOWN"
                /\ (~run.exc /\ run.returncode = 0) =>
                        \A k \in LostIn(run) :
                            /\ k = 0 => st = "UP"
                            /\ (0 < k /\ k < PING_COUNT) => st = "WARNING"
                /\ st = "UP" => LostIn(run) = {0}

\* C22: once on_close has shut the worker pool down no probe result is
\* delivered: in every step taken after the shutdown the last status, the
\* open incidents, the counters and the down times of every target and the
\* rows of both report files stay as they are.
C22_NothingDeliveredAfterClose ==
    [][executor = "shutdown" =>
          UNCHANGED <<last_status, incident_open, down_counter, down_times, xlsx, csv>>]_vars

\* on_close ran after a tick that found a target DOWN, and the clock went
\* on past the moment the next tick was due
C22_Witness ==
    /\ executor = "shutdown"
    /\ nticks > 0
    /\ \E n \in TARGETS : last_status[n] = "DOWN" /\ incident_open[n]
    /\ last_op = "elapse"

\* the report file of the installation: the workbook with openpyxl, the CSV
\* without
ReportExists(x, c) == IF excel THEN x.exists ELSE c.exists

ReportHeader(x, c) == IF excel THEN x.header ELSE IF c.lines = <<>> THEN <<>> ELSE c.lines[1]

ReportRows(x, c) == IF excel THEN x.body ELSE IF c.lines = <<>> THEN <<>> ELSE Tail(c.lines)

\* C23: an ensure_workbook call that returns leaves the report file in
\* place, whatever it found; where it found none the new file has the header
\* Tanggal, one Down column per target in REKAP_ORDER, one JamDown column
\* per target in the same order, and no data row; where it found a readable
\* report with that header, header and rows are as they were.
C23_EnsureLeavesReport ==
    [][ (EnsureStep /\ ~last_call'.raised) =>
            /\ ReportExists(xlsx', csv')
            /\ ~ReportExists(xlsx, csv) =>
                    /\ ReportHeader(xlsx', csv') = CurrentHeader
                    /\ ReportHeader(xlsx', csv') =
                          <<"Tanggal">> \o [i \in DOMAIN REKAP_ORDER |-> "Down " \o REKAP_ORDER[i]]
                                        \o [i \in DOMAIN REKAP_ORDER |-> "JamDown " \o REKAP_ORDER[i]]
                    /\ ReportRows(xlsx', csv') = <<>>
            /\ (/\ ReportExists(xlsx, csv)
                /\ excel => xlsx.readable
                /\ ReportHeader(xlsx, csv) = CurrentHeader) =>
                    /\ ReportHeader(xlsx', csv') = ReportHeader(xlsx, csv)
                    /\ ReportRows(xlsx', csv') = ReportRows(xlsx, csv)
                    /\ xlsx' = xlsx /\ csv' = csv ]_vars

\* ensure_workbook found no workbook and has created one: full header, no row
C23_Witness ==
    /\ last_call.op = "ensure" /\ ~last_call.raised /\ ~last_call.existed
    /\ excel
    /\ xlsx.exists /\ xlsx.header = CurrentHeader /\ xlsx.body = <<>>

\* ---- the report read_last_7_days reads: the workbook when openpyxl is
\* there and the workbook loads, else the CSV
ReadsWorkbook == excel /\ xlsx.exists /\ xlsx.readable

QueriedHeader == IF ReadsWorkbook THEN xlsx.header ELSE IF csv.lines = <<>> THEN <<>> ELSE csv.lines[1]

\* its data rows: what follows the first line
QueriedRows == IF ReadsWorkbook THEN xlsx.body ELSE IF csv.lines = <<>> THEN <<>> ELSE Tail(csv.lines)

\* the date label of a data row
RowLabel(row) == IF ReadsWorkbook THEN row[1].str ELSE row[1]

\* the count of target name in a data row: the number in the cell under the
\* first column headed "Down <name>"; 0 when there is no such column, the
\* row has no such cell, or the cell holds no number
RowCount(row, name) ==
    LET cols == {i \in DOMAIN QueriedHeader : QueriedHeader[i] = "Down " \o name}
    IN  IF cols = {} THEN 0
        ELSE LET i == CHOOSE c \in cols : \A d \in cols : c <= d
             IN  IF i > Len(row) THEN 0
                 ELSE IF ReadsWorkbook
                      THEN (IF DOMAIN row[i] = {"int"} THEN row[i].int ELSE 0)
                      ELSE (IF \E v \in 0..99 : ToString(v) = row[i]
                            THEN CHOOSE v \in 0..99 : ToString(v) = row[i] ELSE 0)

\* C24: for a report with k data rows read_last_7_days returns the last
\* min(7, k) of them in file order, rows of the same date included: as many
\* date labels, as many counts for every target, the j-th label and the
\* j-th counts taken from the same row, a count being 0 where the column,
\* the cell or the number is missing; without data rows it returns nothing.
C24_LastRowsInFileOrder ==
    last_op = "read" =>
        LET k == Len(QueriedRows)
            m == IF k < WeeklyWindow THEN k ELSE WeeklyWindow
        IN  /\ Len(query.dates) = m
            /\ \A n \in TARGETS : Len(query.data[n]) = m
            /\ \A j \in 1..m :
                  /\ query.dates[j] = RowLabel(QueriedRows[k - m + j])
                  /\ \A n \in TARGETS :
                        query.data[n][j] = RowCount(QueriedRows[k - m + j], n)
            /\ k = 0 => query = EmptyQuery

\* a report of nine rows, the last two for the same date with different
\* counts: the query holds seven rows and ends with both of them
C24_Witness ==
    /\ last_op = "read"
    /\ Len(QueriedRows) = 9
    /\ Len(query.dates) = 7
    /\ query.dates[6] = query.dates[7]
    /\ query.data[REKAP_ORDER[1]][6] # query.data[REKAP_ORDER[1]][7]

\* ---- the events of a tick step for target n, by the conditions of lines
\* 661 and 668; the status the tick fed is last_status'
IncidentOpened(n) ==
    last_status[n] # "DOWN" /\ last_status'[n] = "DOWN" /\ ~incident_open[n]

IncidentClosed(n) ==
    (incident_open[n] \/ IncidentOpened(n)) /\ last_status'[n] # "DOWN"

\* the count of n a tick step leaves: in the counter, or in the row the
\* scheduled recap of this tick wrote
CountAfterTick(n) ==
    IF last_op' = "tick_flush" THEN written'[Len(written')].counts[n] ELSE down_counter'[n]

\* C25: no incident is open at startup; a tick emits an opened event for a
\* target only while none is open, leaves it open and counts it exactly
\* once; it emits a closed event only while one is open and leaves none
\* open; it never emits both for one target; and incident_open changes in no
\* other way.  So the events of every target alternate: opened, closed,
\* opened, ...
C25_EventsAlternate ==
    /\ \A n \in TARGETS : ~incident_open[n]
    /\ [][\A n \in TARGETS :
            /\ TickStep =>
                  /\ IncidentOpened(n) =>
                        /\ ~incident_open[n] /\ incident_open'[n]
                        /\ CountAfterTick(n) = down_counter[n] + 1
                  /\ IncidentClosed(n) => (incident_open[n] /\ ~incident_open'[n])
                  /\ ~(IncidentOpened(n) /\ IncidentClosed(n))
                  /\ ~IncidentOpened(n) => CountAfterTick(n) = down_counter[n]
                  /\ incident_open'[n] # incident_open[n] =>
                        (IncidentOpened(n) \/ IncidentClosed(n))
            /\ ~TickStep => incident_open'[n] = incident_open[n] ]_vars

\* a target went down, recovered and went down again: two incidents opened,
\* the second still open
C25_Witness ==
    \E n \in TARGETS :
        /\ opened[n] = 2
        /\ incident_open[n]
        /\ nticks = 3

\* the counters and times of n as the tracker loop of a tick step leaves them
CounterBeforeFlush(n) ==
    IF TickStep /\ IncidentOpened(n) THEN down_counter[n] + 1 ELSE down_counter[n]

TimesBeforeFlush(n) ==
    IF TickStep /\ IncidentOpened(n) THEN Append(down_times[n], HHMM(now)) ELSE down_times[n]

\* C26: the counters are reset only once the row is stored.  A scheduled or
\* manual recap whose write_rekap raises leaves down_counter and down_times
\* of every target as they were when the recap began and leaves
\* last_rekap_day alone; whenever a recap resets them or records its day,
\* its row is in one of the report files.
C26_ResetOnlyAfterAppend ==
    [][ /\ last_op' \in {"tick_raised", "manual_raised"} =>
              /\ \A n \in TARGETS :
                    /\ down_counter'[n] = CounterBeforeFlush(n)
                    /\ down_times'[n] = TimesBeforeFlush(n)
              /\ last_rekap_day' = last_rekap_day
              /\ written' = written
        /\ (TickStep \/ ManualStep) =>
              /\ (\/ last_rekap_day' # last_rekap_day
                  \/ \E n \in TARGETS : down_counter'[n] < CounterBeforeFlush(n)
                  \/ \E n \in TARGETS : down_times'[n] # TimesBeforeFlush(n))
                    => written' # written
              /\ written' # written =>
                    /\ written'[Len(written')].into \in {"xlsx", "csv"}
                    /\ \A n \in TARGETS :
                          written'[Len(written')].counts[n] = CounterBeforeFlush(n) ]_vars

\* the scheduled recap of a tick raised with an incident counted (the lock is
\* still held), and a later press of "Rekap Now" stored that count
C26_Witness ==
    /\ tick_lock
    /\ last_op = "manual"
    /\ written # <<>>
    /\ \E n \in TARGETS : written[Len(written)].counts[n] >= 1

\* the last row of the report file the recap stored its row in
StoredRow(into) ==
    IF into = "xlsx" THEN xlsx'.body[Len(xlsx'.body)] ELSE csv'.lines[Len(csv'.lines)]

\* the row for today with counters and times as the tracker loop left them
ExpectedRow(into) ==
    LET cnt == [n \in TARGETS |-> CounterBeforeFlush(n)]
        tms == [n \in TARGETS |-> TimesBeforeFlush(n)]
    IN IF into = "xlsx" THEN XlsxRow(now.date, cnt, tms) ELSE CsvRow(now.date, cnt, tms)

\* C27: in a tick whose scheduled recap writes its row, the row holds for
\* every target the counter and the times as the tracker loop of this very
\* tick left them, an incident opened in this tick included, and when the
\* tick ends every down_counter is 0 and every down_times is empty.
C27_TrackerBeforeRecap ==
    [][ last_op' = "tick_flush" =>
            LET into == written'[Len(written')].into
            IN  /\ TickStep
                /\ into \in {"xlsx", "csv"}
                /\ StoredRow(into) = ExpectedRow(into)
                /\ \A n \in TARGETS :
                      /\ IncidentOpened(n) => CounterBeforeFlush(n) = down_counter[n] + 1
                      /\ down_counter'[n] = 0
                      /\ down_times'[n] = <<>> ]_vars

\* the first tick runs at the recap boundary, finds a target DOWN and writes
\* the row: the incident is in the row, the counter is back to 0, the
\* incident is still open
C27_Witness ==
    /\ last_op = "tick_flush"
    /\ nticks = 1
    /\ \E n \in TARGETS :
          /\ opened[n] = 1
          /\ incident_open[n]
          /\ written[Len(written)].counts[n] = 1
          /\ written[Len(written)].times[n] = <<HHMM(now)>>
          /\ down_counter[n] = 0
          /\ down_times[n] = <<>>

====
